---- MODULE Spec2Model ----
(***************************************************************************)
(* Model of Schedule.py, the BGMI tournament schedule generator.           *)
(*                                                                         *)
(* The script is a Streamlit page: the widgets hold the settings and the   *)
(* team names, the "Generate Tournament Schedule" button runs the handler  *)
(* of lines 110-176, and the handler calls generate_schedule (lines        *)
(* 62-107).  generate_schedule is modelled one loop iteration at a time so *)
(* that the counts can be observed after every recorded match.             *)
(*                                                                         *)
(* A team name is modelled as a natural number: DefaultName(i) = i stands  *)
(* for the default text "Team i" of the i-th text input and 0 stands for a *)
(* name typed by the user that is none of the defaults.                    *)
(***************************************************************************)
EXTENDS Integers, Sequences, FiniteSets, TLC

VARIABLES
    total_teams,        \* number_input, line 17
    teams_per_match,    \* number_input, line 20
    tournament_days,    \* number_input, line 24
    matches_per_day,    \* number_input, line 27
    matches_per_team,   \* number_input, line 31
    team_names,         \* list built from the text inputs, lines 50-56
    pc,                 \* where the script is
    teams,              \* generate_schedule: copy of team_names, line 64
    team_match_count,   \* generate_schedule: dict team -> count, line 67
    schedule,           \* generate_schedule: list of day records, line 70
    match_id,           \* generate_schedule: running match id, line 71
    day,                \* generate_schedule: outer loop index, line 74
    day_matches,        \* generate_schedule: matches of the current day, line 75
    match,              \* generate_schedule: inner loop index, line 77
    error_shown,        \* st.error of line 176 was displayed by the last press
    previous            \* history: the last call that returned, what it ran
                        \* under and what it returned (no variable of the script)

vars == << total_teams, teams_per_match, tournament_days, matches_per_day,
           matches_per_team, team_names, pc, teams, team_match_count,
           schedule, match_id, day, day_matches, match, error_shown,
           previous >>

settings == << total_teams, teams_per_match, tournament_days, matches_per_day,
               matches_per_team >>

----------------------------------------------------------------------------
(* Widget ranges of the form, lines 17-32.                                 *)

MinTotalTeams == 10
MaxTotalTeams == 32
TotalTeamsStep == 2
MinTeamsPerMatch == 2
MaxTeamsPerMatch == 16
MinTournamentDays == 1
MaxTournamentDays == 7
MinMatchesPerDay == 1
MaxMatchesPerDay == 6
MinMatchesPerTeam == 1
MaxMatchesPerTeam == 6

(* Bounds of the exploration: the part of the widget ranges that is        *)
(* enumerated, and the text inputs that are edited.                        *)

TeamsExplored == 12
DaysExplored == 2
MatchesPerDayExplored == 4
MatchesPerTeamExplored == 2
EditablePositions == 2
EditNames == 1

Min(a, b) == IF a <= b THEN a ELSE b

TotalTeamsValues ==
    { n \in MinTotalTeams .. Min(MaxTotalTeams, TeamsExplored) :
        (n - MinTotalTeams) % TotalTeamsStep = 0 }
TeamsPerMatchValues == MinTeamsPerMatch .. MaxTeamsPerMatch
TournamentDaysValues == MinTournamentDays .. Min(MaxTournamentDays, DaysExplored)
MatchesPerDayValues == MinMatchesPerDay .. Min(MaxMatchesPerDay, MatchesPerDayExplored)
MatchesPerTeamValues == MinMatchesPerTeam .. Min(MaxMatchesPerTeam, MatchesPerTeamExplored)

----------------------------------------------------------------------------
(* Helpers on sequences.                                                   *)

Range(s) == { s[i] : i \in 1 .. Len(s) }

RECURSIVE SumCounts(_, _)
SumCounts(cnt, S) ==
    IF S = {} THEN 0
    ELSE LET t == CHOOSE x \in S : TRUE
         IN cnt[t] + SumCounts(cnt, S \ {t})

----------------------------------------------------------------------------
(* The form.                                                               *)

\* value=f"Team {i+1}" of the i-th text input, line 55
DefaultName(i) == i

DefaultTeamNames(n) == [ i \in 1 .. n |-> DefaultName(i) ]

\* len(set(team_names)) == total_teams, lines 58 and 111
NamesAlwaysAccepted(names, n) == TRUE
NamesUnique(names, n) == Cardinality(Range(names)) = n

\* the st.error of line 59, shown by every run of the script
UniqueNameErrorShown == ~ NamesUnique(team_names, total_teams)

----------------------------------------------------------------------------
(* generate_schedule, lines 62-107.                                        *)

\* line 67: every team of the roster starts at 0
InitialCountKept(ts) ==
    IF DOMAIN team_match_count = Range(ts) THEN team_match_count
    ELSE [ t \in Range(ts) |-> 0 ]
InitialCount(ts) == [ t \in Range(ts) |-> 0 ]

\* Python's sorted is stable: insertion of x, the element that came last in
\* the input, behind every element whose key is not larger.
RECURSIVE InsertStable(_, _, _)
InsertStable(x, s, cnt) ==
    IF s = << >> THEN << x >>
    ELSE IF cnt[s[Len(s)]] <= cnt[x]
         THEN Append(s, x)
         ELSE Append(InsertStable(x, SubSeq(s, 1, Len(s) - 1), cnt), s[Len(s)])

RECURSIVE StableSortBy(_, _)
StableSortBy(s, cnt) ==
    IF s = << >> THEN << >>
    ELSE InsertStable(s[Len(s)], StableSortBy(SubSeq(s, 1, Len(s) - 1), cnt), cnt)

\* mutants of the sort: ties in reverse roster order; descending counts
Reverse(s) == [ i \in 1 .. Len(s) |-> s[Len(s) + 1 - i] ]
SortedTeamsTiesReversed(ts, cnt) == StableSortBy(Reverse(ts), cnt)
SortedTeamsDescending(ts, cnt) == Reverse(StableSortBy(Reverse(ts), cnt))

\* line 79: sorted(teams, key=lambda t: team_match_count[t])
SortedTeams(ts, cnt) == StableSortBy(ts, cnt)

\* line 82: sorted_teams[:teams_per_match]; a slice stops at the end of the list
SliceFromSecond(s, k) == SubSeq(s, 2, Min(k + 1, Len(s)))
SlicePadded(s, k) ==
    [ i \in 1 .. Min(k, Len(s)) |-> IF i < Min(k, Len(s)) THEN s[i] ELSE s[1] ]
Slice(s, k) == SubSeq(s, 1, Min(k, Len(s)))

\* lines 79-82: match_teams before the fill, at the head of an iteration
PrimarySelection == Slice(SortedTeams(teams, team_match_count), teams_per_match)

\* line 86: len(match_teams) < teams_per_match
FillNeeded == Len(PrimarySelection) < teams_per_match

\* line 77: range(matches_per_day)
MatchesInDayFromPerTeam == matches_per_team
MatchesInDay == matches_per_day

\* line 87: [t for t in teams if t not in match_teams]
RemainingTeams(ts, match_teams) ==
    SelectSeq(ts, LAMBDA t : t \notin Range(match_teams))

\* line 88: random.sample(population, k): every ordered choice of k distinct
\* positions; the empty set stands for the ValueError raised when k exceeds
\* the population.
RandomSampleClamped(population, k) ==
    LET kk == Min(k, Len(population))
    IN  { [ i \in 1 .. kk |-> population[f[i]] ] :
            f \in { g \in [ 1 .. kk -> 1 .. Len(population) ] :
                      \A a, b \in 1 .. kk : a # b => g[a] # g[b] } }
RandomSample(population, k) ==
    IF k > Len(population) THEN {}
    ELSE { [ i \in 1 .. k |-> population[f[i]] ] :
             f \in { g \in [ 1 .. k -> 1 .. Len(population) ] :
                       \A a, b \in 1 .. k : a # b => g[a] # g[b] } }

\* lines 92-93: one increment per entry of match_teams
RECURSIVE UpdateCounts(_, _)
UpdateCountsFirstOnly(cnt, match_teams) ==
    IF match_teams = << >> THEN cnt
    ELSE [ cnt EXCEPT ![match_teams[1]] = @ + 1 ]
UpdateCountsDecrement(cnt, match_teams) ==
    IF match_teams = << >> THEN cnt
    ELSE [ cnt EXCEPT ![match_teams[1]] = @ - 1 ]
UpdateCounts(cnt, match_teams) ==
    IF match_teams = << >> THEN cnt
    ELSE UpdateCounts([ cnt EXCEPT ![match_teams[1]] = @ + 1 ],
                      SubSeq(match_teams, 2, Len(match_teams)))

\* line 100: match_id += 1
NextMatchIdPerDay(id, m) == IF m + 1 = matches_per_day THEN 1 ELSE id + 1
NextMatchId(id, m) == id + 1

\* lines 102-105: the day record
DayRecordZeroBased(d, ms) == [ day |-> d, matches |-> ms ]
DayRecord(d, ms) == [ day |-> d + 1, matches |-> ms ]

\* the dict before line 67 has run
NoCount == [ t \in {} |-> 0 ]

----------------------------------------------------------------------------
(* States of the script.  "form": the page is displayed and no press is    *)
(* being handled.  "day_loop", "match_loop": inside generate_schedule, at  *)
(* the head of the loop of line 74, of line 77.  "done": generate_schedule *)
(* returned and the results are displayed.  "error": the handler took the  *)
(* else branch of line 175.  "raised": random.sample raised ValueError.    *)

Idle == pc \in { "form", "done", "error", "raised" }
Generating == pc \in { "day_loop", "match_loop" }

TypeOK ==
    /\ total_teams \in TotalTeamsValues
    /\ teams_per_match \in TeamsPerMatchValues
    /\ tournament_days \in TournamentDaysValues
    /\ matches_per_day \in MatchesPerDayValues
    /\ matches_per_team \in MatchesPerTeamValues
    /\ Len(team_names) = total_teams
    /\ pc \in { "form", "day_loop", "match_loop", "done", "error", "raised" }
    /\ error_shown \in BOOLEAN

\* the names of generate_schedule's locals are unbound outside a call
NoCall ==
    /\ teams' = << >>
    /\ team_match_count' = NoCount
    /\ schedule' = << >>
    /\ match_id' = 0
    /\ day' = 0
    /\ day_matches' = << >>
    /\ match' = 0

\* no call has returned yet
NoPrevious == [ returned |-> FALSE ]

Init ==
    /\ total_teams \in TotalTeamsValues
    /\ teams_per_match \in TeamsPerMatchValues
    /\ tournament_days \in TournamentDaysValues
    /\ matches_per_day \in MatchesPerDayValues
    /\ matches_per_team \in MatchesPerTeamValues
    /\ team_names = DefaultTeamNames(total_teams)
    /\ pc = "form"
    /\ teams = << >>
    /\ team_match_count = NoCount
    /\ schedule = << >>
    /\ match_id = 0
    /\ day = 0
    /\ day_matches = << >>
    /\ match = 0
    /\ error_shown = FALSE
    /\ previous = NoPrevious

\* The user types a name into the i-th text input (line 55); the script is
\* rerun with the button not pressed.
EditTeamName(i, v) ==
    /\ Idle
    /\ team_names[i] # v
    /\ team_names' = [ team_names EXCEPT ![i] = v ]
    /\ pc' = "form"
    /\ error_shown' = FALSE
    /\ NoCall
    /\ UNCHANGED settings

\* The user changes the matches_per_team input (line 31); the script is rerun
\* with the button not pressed.
SetMatchesPerTeam(v) ==
    /\ Idle
    /\ matches_per_team # v
    /\ matches_per_team' = v
    /\ pc' = "form"
    /\ error_shown' = FALSE
    /\ NoCall
    /\ UNCHANGED << total_teams, teams_per_match, tournament_days,
                    matches_per_day, team_names >>

\* The button handler, lines 110-113 and 175-176, up to the first loop head of
\* generate_schedule (lines 64-71).
PressGenerate ==
    /\ Idle
    /\ IF NamesUnique(team_names, total_teams)
       THEN /\ teams' = team_names
            /\ team_match_count' = InitialCount(team_names)
            /\ schedule' = << >>
            /\ match_id' = 1
            /\ day' = 0
            /\ day_matches' = << >>
            /\ match' = 0
            /\ pc' = "day_loop"
            /\ error_shown' = FALSE
       ELSE /\ NoCall
            /\ pc' = "error"
            /\ error_shown' = TRUE
    /\ UNCHANGED << settings, team_names >>

\* for day in range(tournament_days), lines 74-75, and the return of line 107
DayLoop ==
    /\ pc = "day_loop"
    /\ IF day < tournament_days
       THEN /\ day_matches' = << >>
            /\ match' = 0
            /\ pc' = "match_loop"
       ELSE /\ pc' = "done"
            /\ UNCHANGED << day_matches, match >>
    /\ UNCHANGED << settings, team_names, teams, team_match_count, schedule,
                    match_id, day, error_shown >>

\* for match in range(matches_per_day): one iteration, lines 77-100, or the
\* end of the loop and the day record, lines 102-105
MatchLoop ==
    /\ pc = "match_loop"
    /\ IF match < MatchesInDay
       THEN LET first_teams == PrimarySelection
                short == FillNeeded
                remaining_teams == RemainingTeams(teams, first_teams)
                samples == IF short
                           THEN RandomSample(remaining_teams,
                                             teams_per_match - Len(first_teams))
                           ELSE { << >> }
            IN  IF samples = {}
                THEN /\ pc' = "raised"
                     /\ NoCall
                ELSE \E additional_teams \in samples :
                       LET match_teams == first_teams \o additional_teams
                       IN  /\ team_match_count' =
                                 UpdateCounts(team_match_count, match_teams)
                           /\ day_matches' =
                                 Append(day_matches,
                                        [ match_id |-> match_id,
                                          teams |-> match_teams ])
                           /\ match_id' = NextMatchId(match_id, match)
                           /\ match' = match + 1
                           /\ UNCHANGED << pc, teams, schedule, day >>
       ELSE /\ schedule' = Append(schedule, DayRecord(day, day_matches))
            /\ day' = day + 1
            /\ pc' = "day_loop"
            /\ UNCHANGED << teams, team_match_count, match_id, day_matches, match >>
    /\ UNCHANGED << settings, team_names, error_shown >>

\* the history keeps the result that leaves the page
Remember ==
    previous' =
        IF pc = "done" /\ pc' # "done"
        THEN [ returned |-> TRUE,
               roster |-> team_names,
               teams_per_match |-> teams_per_match,
               tournament_days |-> tournament_days,
               matches_per_day |-> matches_per_day,
               matches_per_team |-> matches_per_team,
               schedule |-> schedule,
               counts |-> team_match_count ]
        ELSE previous

\* a result for another roster is not compared with: an edit of the roster
\* empties the history
Forget == previous' = NoPrevious

Next ==
    \/ \E i \in 1 .. Min(total_teams, EditablePositions), v \in 0 .. EditNames :
          EditTeamName(i, v) /\ UNCHANGED previous
    \/ \E v \in MatchesPerTeamValues : SetMatchesPerTeam(v) /\ UNCHANGED previous
    \/ PressGenerate /\ UNCHANGED previous
    \/ DayLoop /\ UNCHANGED previous
    \/ MatchLoop /\ UNCHANGED previous

NextHist ==
    \/ \E i \in 1 .. Min(total_teams, EditablePositions), v \in 0 .. EditNames :
          EditTeamName(i, v) /\ Forget
    \/ \E v \in MatchesPerTeamValues : SetMatchesPerTeam(v) /\ Remember
    \/ PressGenerate /\ Remember
    \/ DayLoop /\ Remember
    \/ MatchLoop /\ Remember

Spec == Init /\ [][Next]_vars

\* the same script, with the history of the last returned call
SpecHist == Init /\ [][NextHist]_vars

----------------------------------------------------------------------------
(* Vocabulary of the properties.                                           *)

RECURSIVE MatchesOf(_)
MatchesOf(days) ==
    IF days = << >> THEN << >>
    ELSE days[1].matches \o MatchesOf(SubSeq(days, 2, Len(days)))

\* the matches recorded so far, in the order they were recorded
Recorded ==
    MatchesOf(schedule) \o (IF pc = "match_loop" THEN day_matches ELSE << >>)

InCall == pc \in { "day_loop", "match_loop", "done" }

Distinct(s) == \A i, j \in 1 .. Len(s) : i # j => s[i] # s[j]

ValidConfiguration ==
    /\ MinTeamsPerMatch <= teams_per_match
    /\ teams_per_match <= Len(team_names)
    /\ tournament_days >= 1
    /\ matches_per_day >= 1
    /\ Distinct(team_names)

MaxOf(S) == CHOOSE x \in S : \A y \in S : y <= x
MinOf(S) == CHOOSE x \in S : \A y \in S : x <= y
CountValues == { team_match_count[t] : t \in DOMAIN team_match_count }
Spread == MaxOf(CountValues) - MinOf(CountValues)

----------------------------------------------------------------------------
\* C1: for every valid configuration generate_schedule returns (it does not
\* raise) a schedule of exactly tournament_days day records numbered
\* 1..tournament_days in order, each with exactly matches_per_day matches,
\* each with exactly teams_per_match teams.
C1_ScheduleShape ==
    ValidConfiguration =>
        /\ pc # "raised"
        /\ pc = "done" =>
             /\ Len(schedule) = tournament_days
             /\ \A d \in 1 .. Len(schedule) :
                  /\ schedule[d].day = d
                  /\ Len(schedule[d].matches) = matches_per_day
                  /\ \A m \in 1 .. Len(schedule[d].matches) :
                       Len(schedule[d].matches[m].teams) = teams_per_match

C1_Witness ==
    /\ pc = "done"
    /\ ValidConfiguration
    /\ tournament_days = 2
    /\ matches_per_day = 3
    /\ Len(schedule) = 2

\* C2: for every valid configuration the counts returned sum to
\* tournament_days * matches_per_day * teams_per_match, and after the k-th
\* recorded match the running sum is k * teams_per_match.
C2_CountSum ==
    (ValidConfiguration /\ InCall) =>
        /\ SumCounts(team_match_count, DOMAIN team_match_count)
             = Len(Recorded) * teams_per_match
        /\ pc = "done" =>
             SumCounts(team_match_count, DOMAIN team_match_count)
               = tournament_days * matches_per_day * teams_per_match

C2_Witness ==
    /\ pc = "done"
    /\ ValidConfiguration
    /\ SumCounts(team_match_count, DOMAIN team_match_count) = 2 * 3 * 4

\* C3: match ids, read day by day and match by match, are 1, 2, ...,
\* tournament_days * matches_per_day, with no reset at a day boundary.
C3_MatchIds ==
    InCall =>
        /\ \A i \in 1 .. Len(Recorded) : Recorded[i].match_id = i
        /\ pc = "done" => Len(Recorded) = tournament_days * matches_per_day

C3_Witness ==
    /\ pc = "done"
    /\ tournament_days = 2
    /\ matches_per_day = 2
    /\ schedule[2].matches[1].match_id = 3

\* C4: for every valid configuration with unique roster names no recorded
\* match lists the same team more than once.
C4_NoDuplicateTeam ==
    (ValidConfiguration /\ InCall) =>
        \A i \in 1 .. Len(Recorded) : Distinct(Recorded[i].teams)

C4_Witness ==
    /\ pc = "done"
    /\ ValidConfiguration
    /\ Len(Recorded) >= 4
    /\ teams_per_match >= 3

\* C5: when teams_per_match <= roster size the first match is the first
\* teams_per_match teams of the roster, in roster order.
C5_FirstMatch ==
    (InCall /\ teams_per_match <= Len(team_names) /\ Len(Recorded) >= 1) =>
        /\ Recorded[1].match_id = 1
        /\ Recorded[1].teams = SubSeq(team_names, 1, teams_per_match)

C5_Witness ==
    /\ pc = "done"
    /\ team_names[1] = 0
    /\ team_names[2] = 1
    /\ teams_per_match = 3
    /\ Recorded[1].teams = << 0, 1, 3 >>

\* C6: when teams_per_match divides the roster size, after every recorded
\* match the largest count minus the smallest count is at most 1.
C6_Balanced ==
    (InCall /\ ValidConfiguration /\ Len(team_names) % teams_per_match = 0) =>
        Spread <= 1

C6_Witness ==
    /\ pc = "match_loop"
    /\ ValidConfiguration
    /\ Len(team_names) % teams_per_match = 0
    /\ teams_per_match < Len(team_names)
    /\ MaxOf(CountValues) = 2
    /\ MinOf(CountValues) = 1

\* C7: roster T1..T10, teams_per_match 4, one day, two matches per day:
\* one day with match 1 = T1..T4 and match 2 = T5..T8; T1..T8 end at 1,
\* T9 and T10 at 0.
C7_Example ==
    ( /\ pc = "done"
      /\ team_names = DefaultTeamNames(10)
      /\ teams_per_match = 4
      /\ tournament_days = 1
      /\ matches_per_day = 2 ) =>
        /\ schedule =
             << [ day |-> 1,
                  matches |-> << [ match_id |-> 1, teams |-> << 1, 2, 3, 4 >> ],
                                 [ match_id |-> 2, teams |-> << 5, 6, 7, 8 >> ] >> ] >>
        /\ team_match_count = [ t \in 1 .. 10 |-> IF t <= 8 THEN 1 ELSE 0 ]

C7_Witness ==
    /\ pc = "done"
    /\ team_names = DefaultTeamNames(10)
    /\ teams_per_match = 4
    /\ tournament_days = 1
    /\ matches_per_day = 2
    /\ Len(schedule) = 1

\* C8: a press of the button with a roster in which two teams share a name
\* never invokes generate_schedule and produces no schedule, only the error
\* message; generate_schedule is invoked only when the number of distinct
\* names equals total_teams.
C8_DuplicateNamesBlock ==
    /\ (InCall \/ pc = "raised") =>
          Cardinality({ team_names[i] : i \in 1 .. Len(team_names) }) = total_teams
    /\ pc = "error" =>
          /\ ~ Distinct(team_names)
          /\ error_shown
          /\ schedule = << >>
          /\ team_match_count = NoCount
    /\ error_shown => pc = "error"

C8_Witness ==
    /\ pc = "error"
    /\ team_names[1] = team_names[2]
    /\ error_shown

\* C9: generate_schedule is never invoked with teams_per_match greater than
\* the roster size.
C9_CallerRejectsTooManyPerMatch ==
    (InCall \/ pc = "raised") => teams_per_match <= total_teams

\* C10: team_match_count is 0 for every roster team when generation starts,
\* stays a non-negative integer for every team, and never decreases for any
\* team from one generation step to the next.
C10_CountsMonotone ==
    [][ /\ (Idle /\ pc' = "day_loop") =>
              /\ DOMAIN team_match_count' = { team_names[i] : i \in 1 .. Len(team_names) }
              /\ \A t \in DOMAIN team_match_count' : team_match_count'[t] = 0
        /\ (Generating /\ pc' # "raised") =>
              /\ DOMAIN team_match_count' = DOMAIN team_match_count
              /\ \A t \in DOMAIN team_match_count :
                    /\ team_match_count'[t] \in Nat
                    /\ team_match_count'[t] >= team_match_count[t] ]_vars

C10_Witness ==
    /\ pc = "match_loop"
    /\ \E t \in DOMAIN team_match_count : team_match_count[t] = 2
    /\ \E t \in DOMAIN team_match_count : team_match_count[t] = 1

----------------------------------------------------------------------------
\* position of a name in the roster (names are unique inside a call)
PositionOf(t) == CHOOSE i \in 1 .. Len(team_names) : team_names[i] = t

\* a comes before b in the roster ordered by ascending count cnt, teams of
\* equal count in roster order
ComesBefore(a, b, cnt) ==
    \/ cnt[a] < cnt[b]
    \/ cnt[a] = cnt[b] /\ PositionOf(a) < PositionOf(b)

\* C13: the team list of every match of a valid configuration is the first
\* teams_per_match teams of the roster ordered by ascending count as it stood
\* just before the match, teams of equal count in roster order: the list is
\* in that order, and every unselected team comes after every selected one.
C13_GreedyStableSelection ==
    [][ ( /\ pc = "match_loop"
          /\ pc' = "match_loop"
          /\ match' = match + 1
          /\ ValidConfiguration ) =>
            LET sel == day_matches'[Len(day_matches')].teams
                names == { team_names[i] : i \in 1 .. Len(team_names) }
                chosen == { sel[i] : i \in 1 .. Len(sel) }
            IN  /\ Len(day_matches') = Len(day_matches) + 1
                /\ Len(sel) = teams_per_match
                /\ chosen \subseteq names
                /\ \A i, j \in 1 .. Len(sel) :
                      i < j => ComesBefore(sel[i], sel[j], team_match_count)
                /\ \A t \in names \ chosen : \A i \in 1 .. Len(sel) :
                      /\ ComesBefore(sel[i], t, team_match_count)
                      /\ team_match_count[sel[i]] <= team_match_count[t] ]_vars

C13_Witness ==
    /\ pc = "match_loop"
    /\ team_names = DefaultTeamNames(10)
    /\ teams_per_match = 4
    /\ Len(day_matches) = 3
    /\ day_matches[3].teams = << 9, 10, 1, 2 >>

----------------------------------------------------------------------------
TeamsOf(m) == { m.teams[i] : i \in 1 .. Len(m.teams) }

\* C14: a call with teams_per_match greater than the roster size fails in
\* its first match: it never gets past the first iteration, never returns,
\* leaves neither a schedule nor counts, and no match with fewer than
\* teams_per_match teams is ever recorded.
C14_TooFewTeamsFailsAtOnce ==
    /\ teams_per_match > total_teams =>
          /\ pc # "done"
          /\ InCall => /\ day = 0
                       /\ match = 0
                       /\ match_id = 1
                       /\ schedule = << >>
                       /\ day_matches = << >>
    /\ pc = "raised" =>
          /\ teams_per_match > total_teams
          /\ schedule = << >>
          /\ team_match_count = NoCount
    /\ \A i \in 1 .. Len(Recorded) : Len(Recorded[i].teams) >= teams_per_match

C14_Witness ==
    /\ pc = "raised"
    /\ total_teams = 10
    /\ teams_per_match = 11

\* C15: at the head of every iteration of a call with teams_per_match <=
\* roster size the primary selection already has teams_per_match teams, so
\* the fill of lines 86-89 is not executed; it is executed only when
\* teams_per_match > roster size.
C15_FillOnlyWhenTooFewTeams ==
    (pc = "match_loop" /\ match < matches_per_day) =>
        (FillNeeded <=> teams_per_match > Len(teams))

C15_Witness ==
    /\ pc = "match_loop"
    /\ match < matches_per_day
    /\ teams_per_match = Len(teams)
    /\ match_id = 3
    /\ ~ FillNeeded

\* C16: for every valid configuration, whether or not teams_per_match
\* divides the roster size, the largest count minus the smallest count is at
\* most 1 after every recorded match.
C16_BalancedAlways ==
    (InCall /\ ValidConfiguration) => MaxOf(CountValues) <= MinOf(CountValues) + 1

C16_Witness ==
    /\ pc = "match_loop"
    /\ ValidConfiguration
    /\ Len(team_names) % teams_per_match # 0
    /\ MaxOf(CountValues) = 2
    /\ MinOf(CountValues) = 1

\* C17: for every valid configuration and every team, the count of the team
\* equals the number of matches recorded so far whose team list contains it,
\* during generation and at return.
C17_CountsAgreeWithSchedule ==
    (InCall /\ ValidConfiguration) =>
        /\ DOMAIN team_match_count = { team_names[i] : i \in 1 .. Len(team_names) }
        /\ \A t \in DOMAIN team_match_count :
              team_match_count[t] =
                 Cardinality({ i \in 1 .. Len(Recorded) : t \in TeamsOf(Recorded[i]) })

C17_Witness ==
    /\ pc = "done"
    /\ ValidConfiguration
    /\ Len(Recorded) = 8
    /\ \E t \in DOMAIN team_match_count : team_match_count[t] = 3
    /\ \E t \in DOMAIN team_match_count : team_match_count[t] = 2

\* C18: when teams_per_match divides the roster size n, with r = n /
\* teams_per_match, every complete block of matches j*r+1 .. (j+1)*r lists
\* every roster team exactly once, and every match repeats the team list of
\* the match r places before it.
C18_EvenRotation ==
    (InCall /\ ValidConfiguration /\ Len(team_names) % teams_per_match = 0) =>
        LET r == Len(team_names) \div teams_per_match
            names == { team_names[i] : i \in 1 .. Len(team_names) }
        IN  /\ \A i \in 1 .. Len(Recorded) :
                  i > r => Recorded[i].teams = Recorded[i - r].teams
            /\ \A j \in 0 .. (Len(Recorded) \div r) - 1 : \A t \in names :
                  Cardinality({ i \in (j * r + 1) .. ((j + 1) * r) :
                                  t \in TeamsOf(Recorded[i]) }) = 1

C18_Witness ==
    /\ pc = "done"
    /\ ValidConfiguration
    /\ Len(team_names) = 12
    /\ teams_per_match = 4
    /\ Len(Recorded) = 6
    /\ Recorded[5].teams = Recorded[2].teams

----------------------------------------------------------------------------
(* Two calls: the result on the page against the result of the last call   *)
(* that returned before it.                                                *)

SameGenerationInputs ==
    /\ previous.returned
    /\ previous.roster = team_names
    /\ previous.teams_per_match = teams_per_match
    /\ previous.tournament_days = tournament_days
    /\ previous.matches_per_day = matches_per_day

\* C11: two runs that differ only in matches_per_team return the same
\* schedule and the same final counts.
C11_MatchesPerTeamIgnored ==
    ( /\ pc = "done"
      /\ SameGenerationInputs
      /\ previous.matches_per_team # matches_per_team ) =>
        /\ schedule = previous.schedule
        /\ team_match_count = previous.counts

C11_Witness ==
    /\ pc = "done"
    /\ SameGenerationInputs
    /\ previous.matches_per_team = 1
    /\ matches_per_team = 2
    /\ matches_per_day = 3
    /\ Len(schedule) = 2

\* C12: two calls with the same roster, teams_per_match, tournament_days and
\* matches_per_day (teams_per_match <= roster size) return identical
\* schedules and counts, whatever was called before; every call starts from
\* counts 0, match id 1 and an empty schedule, and works on the roster as the
\* form holds it.
C12_Deterministic ==
    /\ ( /\ pc = "done"
         /\ SameGenerationInputs
         /\ teams_per_match <= Len(team_names) ) =>
           /\ schedule = previous.schedule
           /\ team_match_count = previous.counts
    /\ (pc = "day_loop" /\ day = 0) =>
           /\ match_id = 1
           /\ schedule = << >>
           /\ \A t \in DOMAIN team_match_count : team_match_count[t] = 0
    /\ InCall => teams = team_names

C12_Witness ==
    /\ pc = "done"
    /\ SameGenerationInputs
    /\ previous.matches_per_team = matches_per_team
    /\ team_names[1] = 0
    /\ Len(Recorded) = 4
    /\ MaxOf(CountValues) = 2

====
